---- MODULE Spec2Model ----
(***************************************************************************)
(* Model of the transdirect client: the BookingStatus wire parser          *)
(* (src/src/booking.rs) and the Client authentication / quotes operations  *)
(* (src/src/client.rs) over the restson transport handle.                  *)
(***************************************************************************)
EXTENDS Naturals, Sequences, FiniteSets, TLC

\* Number of calls the caller makes on the client API in one behaviour.
MaxCalls == 3

\* Option<T>: None is the empty sequence, Some(x) the one-element sequence.
None == << >>
Some(x) == << x >>

(***************************************************************************)
(* Text.  A string is a sequence of one-character strings, so that case    *)
(* and padding are visible to the parser.                                  *)
(***************************************************************************)
LowerLetters == <<"a","b","c","d","e","f","g","h","i","j","k","l","m","n","o","p","q","r","s","t","u","v","w","x","y","z">>
UpperLetters == <<"A","B","C","D","E","F","G","H","I","J","K","L","M","N","O","P","Q","R","S","T","U","V","W","X","Y","Z">>

IsUpper(c) == \E i \in 1..26 : UpperLetters[i] = c
IsLower(c) == \E i \in 1..26 : LowerLetters[i] = c
ToLowerChar(c) == IF IsUpper(c) THEN LowerLetters[CHOOSE i \in 1..26 : UpperLetters[i] = c] ELSE c
ToUpperChar(c) == IF IsLower(c) THEN UpperLetters[CHOOSE i \in 1..26 : LowerLetters[i] = c] ELSE c

\* The variants of enum BookingStatus, in declaration order.
BookingStatus == {"New", "PendingPayment", "Paid", "RequestSent", "Reviewed", "Confirmed", "Cancelled", "PendingReview", "RequestFailed", "BookedManually"}

\* The identifier of a variant, as text.
VariantName(v) ==
    CASE v = "New" -> <<"N","e","w">>
    [] v = "PendingPayment" -> <<"P","e","n","d","i","n","g","P","a","y","m","e","n","t">>
    [] v = "Paid" -> <<"P","a","i","d">>
    [] v = "RequestSent" -> <<"R","e","q","u","e","s","t","S","e","n","t">>
    [] v = "Reviewed" -> <<"R","e","v","i","e","w","e","d">>
    [] v = "Confirmed" -> <<"C","o","n","f","i","r","m","e","d">>
    [] v = "Cancelled" -> <<"C","a","n","c","e","l","l","e","d">>
    [] v = "PendingReview" -> <<"P","e","n","d","i","n","g","R","e","v","i","e","w">>
    [] v = "RequestFailed" -> <<"R","e","q","u","e","s","t","F","a","i","l","e","d">>
    [] v = "BookedManually" -> <<"B","o","o","k","e","d","M","a","n","u","a","l","l","y">>

\* Results of BookingStatus::deserialize.
DeOk(v) == [ok |-> TRUE, value |-> v, kind |-> "", msg |-> ""]
DeErr(m) == [ok |-> FALSE, value |-> "", kind |-> "de::Error::custom", msg |-> m]

\* A parser whose "booked_manually" arm yields the wrong variant.
deserialize_swapped(variant) ==
    CASE variant = <<"n","e","w">> -> DeOk("New")
    [] variant = <<"p","e","n","d","i","n","g","_","p","a","y","m","e","n","t">> -> DeOk("PendingPayment")
    [] variant = <<"p","a","i","d">> -> DeOk("Paid")
    [] variant = <<"r","e","q","u","e","s","t","_","s","e","n","t">> -> DeOk("RequestSent")
    [] variant = <<"r","e","v","i","e","w","e","d">> -> DeOk("Reviewed")
    [] variant = <<"c","o","n","f","i","r","m","e","d">> -> DeOk("Confirmed")
    [] variant = <<"c","a","n","c","e","l","l","e","d">> -> DeOk("Cancelled")
    [] variant = <<"p","e","n","d","i","n","g","_","r","e","v","i","e","w">> -> DeOk("PendingReview")
    [] variant = <<"r","e","q","u","e","s","t","_","f","a","i","l","e","d">> -> DeOk("RequestFailed")
    [] variant = <<"b","o","o","k","e","d","_","m","a","n","u","a","l","l","y">> -> DeOk("RequestFailed")
    [] OTHER -> DeErr("Unrecognised enum value")

\* impl Deserialize for BookingStatus: exact match on the string.
deserialize(variant) ==
    CASE variant = <<"n","e","w">> -> DeOk("New")
    [] variant = <<"p","e","n","d","i","n","g","_","p","a","y","m","e","n","t">> -> DeOk("PendingPayment")
    [] variant = <<"p","a","i","d">> -> DeOk("Paid")
    [] variant = <<"r","e","q","u","e","s","t","_","s","e","n","t">> -> DeOk("RequestSent")
    [] variant = <<"r","e","v","i","e","w","e","d">> -> DeOk("Reviewed")
    [] variant = <<"c","o","n","f","i","r","m","e","d">> -> DeOk("Confirmed")
    [] variant = <<"c","a","n","c","e","l","l","e","d">> -> DeOk("Cancelled")
    [] variant = <<"p","e","n","d","i","n","g","_","r","e","v","i","e","w">> -> DeOk("PendingReview")
    [] variant = <<"r","e","q","u","e","s","t","_","f","a","i","l","e","d">> -> DeOk("RequestFailed")
    [] variant = <<"b","o","o","k","e","d","_","m","a","n","u","a","l","l","y">> -> DeOk("BookedManually")
    [] OTHER -> DeErr("Unrecognised enum value")

\* Lower-snake-case of an identifier: an upper-case letter starts a new
\* word, written as "_" (not before the first) and the lower-case letter.
RECURSIVE SnakeFrom(_, _)
SnakeFrom(s, i) ==
    IF i > Len(s) THEN << >>
    ELSE (IF IsUpper(s[i]) /\ i > 1 THEN <<"_", ToLowerChar(s[i])>> ELSE <<ToLowerChar(s[i])>>)
         \o SnakeFrom(s, i + 1)

\* The wire token of a variant.
to_wire_token(v) == SnakeFrom(VariantName(v), 1)

\* Re-spellings of a token that a lenient parser would accept.
UpperCased(s) == [i \in 1..Len(s) |-> ToUpperChar(s[i])]
Capitalised(s) == [i \in 1..Len(s) |-> IF i = 1 THEN ToUpperChar(s[i]) ELSE s[i]]
PadLeft(s) == <<" ">> \o s
PadRight(s) == s \o <<" ">>

\* The string patterns of the match in deserialize.
KnownTokens ==
    {<<"n","e","w">>,
     <<"p","e","n","d","i","n","g","_","p","a","y","m","e","n","t">>,
     <<"p","a","i","d">>,
     <<"r","e","q","u","e","s","t","_","s","e","n","t">>,
     <<"r","e","v","i","e","w","e","d">>,
     <<"c","o","n","f","i","r","m","e","d">>,
     <<"c","a","n","c","e","l","l","e","d">>,
     <<"p","e","n","d","i","n","g","_","r","e","v","i","e","w">>,
     <<"r","e","q","u","e","s","t","_","f","a","i","l","e","d">>,
     <<"b","o","o","k","e","d","_","m","a","n","u","a","l","l","y">>}

\* Tokens a server may send that are not in the table.
ForeignTokens ==
    {<<"n","o","t","_","a","_","r","e","a","l","_","s","t","a","t","u","s">>, << >>}
    \cup {VariantName(v) : v \in BookingStatus}
    \cup {UpperCased(k) : k \in KnownTokens}
    \cup {Capitalised(k) : k \in KnownTokens}
    \cup {PadLeft(k) : k \in KnownTokens}
    \cup {PadRight(k) : k \in KnownTokens}


(***************************************************************************)
(* The client and its transport handle.                                    *)
(***************************************************************************)
\* AuthenticateWith: the two credential shapes a caller can pass.
Users == {"alice"}
Passwords == {"right", "wrong"}
ApiKeys == {"key1", "stale"}
Basic(user, pass) == [shape |-> "Basic", user |-> user, pass |-> pass, key |-> ""]
APIKey(key) == [shape |-> "APIKey", user |-> "", pass |-> "", key |-> key]
AuthenticateWith ==
    {Basic(u, p) : u \in Users, p \in Passwords} \cup {APIKey(k) : k \in ApiKeys}

\* The credentials the remote API accepts.
ValidBasic == {<<"alice", "right">>}
ValidKeys == {"key1"}

\* Result<_, Error> of the client's operations.
Ok(v) == [ok |-> TRUE, kind |-> "", msg |-> "", value |-> v]
Err(kind, msg) == [ok |-> FALSE, kind |-> kind, msg |-> msg, value |-> None]
HTTPError(msg) == Err("HTTPError", msg)

\* RestClient::new_blocking: no basic auth, no extra headers.
new_blocking == [auth |-> None, headers |-> {}]

\* RestClient::set_auth: stores the Basic credential, replacing an earlier one.
set_auth(rc, user, pass) == [rc EXCEPT !.auth = Some(<<user, pass>>)]

\* RestClient::set_header: inserts into the header map, replacing the same name.
set_header(rc, name, value) ==
    [rc EXCEPT !.headers = {h \in rc.headers : h[1] # name} \cup {<<name, value>>}]

\* RestPath<()> for BookingRequest.
get_path == "bookings/v4"

\* RestPath<()> for Member, opaque here.
member_path == "Member::get_path(())"

\* A request as the handle sends it: its standing credentials ride along.
Request(rc, method, path) ==
    [method |-> method, path |-> path, auth |-> rc.auth, headers |-> rc.headers]

\* Client::new
new == [authenticated |-> FALSE, restclient |-> new_blocking]

(***************************************************************************)
(* The remote API and the network, as far as the client can observe them.  *)
(***************************************************************************)
HasValid(req) ==
    \/ req.auth # None /\ req.auth[1] \in ValidBasic
    \/ \E h \in req.headers : h[1] = "Api-key" /\ h[2] \in ValidKeys
HasInvalid(req) ==
    \/ req.auth # None /\ req.auth[1] \notin ValidBasic
    \/ \E h \in req.headers : h[1] = "Api-key" /\ h[2] \notin ValidKeys

\* Status tokens the API puts in a booking body.
BodyTokens ==
    {<<"n","e","w">>, <<"b","o","o","k","e","d","_","m","a","n","u","a","l","l","y">>,
     <<"n","o","t","_","a","_","r","e","a","l","_","s","t","a","t","u","s">>,
     UpperCased(<<"n","e","w">>), PadLeft(<<"p","a","i","d">>)}

NetworkError == [kind |-> "NetworkError", valid |-> FALSE, status |-> << >>]
Unauthorized == [kind |-> "HttpStatus", valid |-> FALSE, status |-> << >>]
Body(valid, status) == [kind |-> "Body", valid |-> valid, status |-> status]

\* What may come back for a request.  A request with one valid and one
\* invalid credential may be accepted or rejected.
Responses(req) ==
    {NetworkError}
    \cup (IF ~HasValid(req) \/ HasInvalid(req) THEN {Unauthorized} ELSE {})
    \cup (IF HasValid(req)
          THEN IF req.method = "GET"
               THEN {Body(TRUE, << >>), Body(FALSE, << >>)}
               ELSE {Body(FALSE, << >>)} \cup {Body(TRUE, t) : t \in BodyTokens}
          ELSE {})

\* restson::Error::to_string, by failure.
to_string(resp, parsed) ==
    CASE resp.kind = "NetworkError" -> "HyperError"
    [] resp.kind = "HttpStatus" -> "HttpError(401)"
    [] resp.kind = "Body" /\ ~resp.valid -> "DeserializeParseError"
    [] OTHER -> parsed.msg

\* restclient.get::<_, Member>(()): the decoded member or the error text.
get(resp) ==
    IF resp.kind = "Body" /\ resp.valid THEN Ok("Member")
    ELSE Err("restson::Error", to_string(resp, DeErr("")))

\* restclient.post_capture::<_, _, BookingResponse>: the decoded booking,
\* whose status field goes through BookingStatus::deserialize.
post_capture(resp) ==
    LET st == deserialize(resp.status)
    IN  IF resp.kind = "Body" /\ resp.valid /\ st.ok
        THEN Ok([status |-> st.value])
        ELSE Err("restson::Error", to_string(resp, st))


(***************************************************************************)
(* Client operations, as functions of the client, the argument and the     *)
(* response the transport obtains.  Each yields the client afterwards, the *)
(* requests put on the wire and the value returned to the caller.          *)
(***************************************************************************)
\* The handle after auth() attached the credential (the match on auth).
Attach(rc, a) ==
    IF a.shape = "Basic" THEN set_auth(rc, a.user, a.pass)
    ELSE set_header(rc, "Api-key", a.key)

\* The verification request auth() sends.
auth_request(self, a) == Request(Attach(self.restclient, a), "GET", member_path)

\* auth() that marks the client authenticated before the verification call.
auth_eager(self, a, resp) ==
    LET rc == Attach(self.restclient, a)
        after == [authenticated |-> TRUE, restclient |-> rc]
    IN  IF get(resp).ok
        THEN [self |-> after, requests |-> <<auth_request(self, a)>>, result |-> Ok("()")]
        ELSE [self |-> after, requests |-> <<auth_request(self, a)>>,
              result |-> HTTPError(get(resp).msg)]

\* auth() that clears the flag when the verification call fails.
auth_resetting(self, a, resp) ==
    LET rc == Attach(self.restclient, a)
    IN  IF get(resp).ok
        THEN [self |-> [authenticated |-> TRUE, restclient |-> rc],
              requests |-> <<auth_request(self, a)>>, result |-> Ok("()")]
        ELSE [self |-> [authenticated |-> FALSE, restclient |-> rc],
              requests |-> <<auth_request(self, a)>>,
              result |-> HTTPError(get(resp).msg)]

\* Client::auth
auth(self, a, resp) ==
    LET rc == Attach(self.restclient, a)
    IN  IF get(resp).ok
        THEN [self |-> [authenticated |-> TRUE, restclient |-> rc],
              requests |-> <<auth_request(self, a)>>, result |-> Ok("()")]
        ELSE [self |-> [authenticated |-> self.authenticated, restclient |-> rc],
              requests |-> <<auth_request(self, a)>>,
              result |-> HTTPError(get(resp).msg)]

\* The request quotes() sends.
quotes_request(self) == Request(self.restclient, "POST", get_path)

\* quotes() that records a successful exchange on the client.
quotes_marking(self, resp) ==
    [self |-> IF post_capture(resp).ok THEN [self EXCEPT !.authenticated = TRUE] ELSE self,
     requests |-> <<quotes_request(self)>>,
     result |-> IF post_capture(resp).ok THEN Ok(post_capture(resp).value)
                ELSE HTTPError(post_capture(resp).msg)]

\* quotes() that sends the POST again when the first one fails.
quotes_retrying(self, resp) ==
    [self |-> self,
     requests |-> IF post_capture(resp).ok THEN <<quotes_request(self)>>
                  ELSE <<quotes_request(self), quotes_request(self)>>,
     result |-> IF post_capture(resp).ok THEN Ok(post_capture(resp).value)
                ELSE HTTPError(post_capture(resp).msg)]

\* quotes() that unwraps the transport result instead of mapping the error.
quotes_unwrapping(self, resp) ==
    [self |-> self,
     requests |-> <<quotes_request(self)>>,
     result |-> IF post_capture(resp).ok THEN Ok(post_capture(resp).value)
                ELSE Err("panic", post_capture(resp).msg)]

\* Client::quotes
quotes(self, resp) ==
    [self |-> self,
     requests |-> <<quotes_request(self)>>,
     result |-> IF post_capture(resp).ok THEN Ok(post_capture(resp).value)
                ELSE HTTPError(post_capture(resp).msg)]

\* from_auth() that drops the result of auth() and returns the client anyway.
from_auth_unchecked(a, resp) ==
    LET r == auth(new, a, resp)
    IN  [client |-> Some(r.self), requests |-> r.requests, result |-> Ok("Client")]

\* Client::from_auth
from_auth(a, resp) ==
    LET r == auth(new, a, resp)
    IN  IF r.result.ok
        THEN [client |-> Some(r.self), requests |-> r.requests, result |-> Ok("Client")]
        ELSE [client |-> None, requests |-> r.requests, result |-> r.result]

\* Client::from_basic
from_basic(user, password, resp) == from_auth(Basic(user, password), resp)

\* Client::from_api_key
from_api_key(apikey, resp) == from_auth(APIKey(apikey), resp)

(***************************************************************************)
(* State.                                                                  *)
(***************************************************************************)
VARIABLES
    client,     \* Option<Client>: the client the caller holds
    wire,       \* the requests sent so far, in order
    history,    \* the calls made so far: operation, argument, response, result
    pc,         \* status parser: "idle", "token" or "parsed"
    token,      \* status parser: the token at hand
    origin,     \* status parser: Some(v) when the token is to_wire_token(v)
    parsed      \* status parser: Some(result of deserialize)

vars == <<client, wire, history, pc, token, origin, parsed>>
clientVars == <<client, wire, history>>
parserVars == <<pc, token, origin, parsed>>

Call(op, arg, resp, result) == [op |-> op, arg |-> arg, resp |-> resp, result |-> result]

InitClient == client = None /\ wire = << >> /\ history = << >>
InitParser == pc = "idle" /\ token = << >> /\ origin = None /\ parsed = None

Init == InitClient /\ InitParser

CanCall == Len(history) < MaxCalls

New ==
    /\ CanCall /\ client = None
    /\ client' = Some(new)
    /\ wire' = wire
    /\ history' = Append(history, Call("new", None, None, Ok("Client")))
    /\ UNCHANGED parserVars

Construct(op, a, r, resp) ==
    /\ client' = r.client
    /\ wire' = wire \o r.requests
    /\ history' = Append(history, Call(op, Some(a), Some(resp), r.result))
    /\ UNCHANGED parserVars

FromAuth ==
    /\ CanCall /\ client = None
    /\ \E a \in AuthenticateWith : \E resp \in Responses(auth_request(new, a)) :
          Construct("from_auth", a, from_auth(a, resp), resp)

FromBasic ==
    /\ CanCall /\ client = None
    /\ \E u \in Users, p \in Passwords : \E resp \in Responses(auth_request(new, Basic(u, p))) :
          Construct("from_basic", Basic(u, p), from_basic(u, p, resp), resp)

FromApiKey ==
    /\ CanCall /\ client = None
    /\ \E k \in ApiKeys : \E resp \in Responses(auth_request(new, APIKey(k))) :
          Construct("from_api_key", APIKey(k), from_api_key(k, resp), resp)

Auth ==
    /\ CanCall /\ client # None
    /\ \E a \in AuthenticateWith : \E resp \in Responses(auth_request(client[1], a)) :
          LET r == auth(client[1], a, resp)
          IN  /\ client' = Some(r.self)
              /\ wire' = wire \o r.requests
              /\ history' = Append(history, Call("auth", Some(a), Some(resp), r.result))
    /\ UNCHANGED parserVars

Quotes ==
    /\ CanCall /\ client # None
    /\ \E resp \in Responses(quotes_request(client[1])) :
          LET r == quotes(client[1], resp)
          IN  /\ client' = Some(r.self)
              /\ wire' = wire \o r.requests
              /\ history' = Append(history, Call("quotes", None, Some(resp), r.result))
    /\ UNCHANGED parserVars

Next == New \/ FromAuth \/ FromBasic \/ FromApiKey \/ Auth \/ Quotes

Spec == Init /\ [][Next]_vars

(***************************************************************************)
(* The status parser on its own: a token is produced from a variant or     *)
(* received from the wire, then parsed.                                    *)
(***************************************************************************)
Encode ==
    /\ pc = "idle"
    /\ \E v \in BookingStatus :
          /\ token' = to_wire_token(v)
          /\ origin' = Some(v)
    /\ pc' = "token"
    /\ UNCHANGED <<parsed, client, wire, history>>

Receive ==
    /\ pc = "idle"
    /\ \E t \in ForeignTokens : token' = t
    /\ origin' = None
    /\ pc' = "token"
    /\ UNCHANGED <<parsed, client, wire, history>>

Parse ==
    /\ pc = "token"
    /\ parsed' = Some(deserialize(token))
    /\ pc' = "parsed"
    /\ UNCHANGED <<token, origin, client, wire, history>>

NextStatus == Encode \/ Receive \/ Parse

SpecStatus == Init /\ [][NextStatus]_vars


(***************************************************************************)
(* Properties.                                                             *)
(***************************************************************************)
AuthOps == {"auth", "from_auth", "from_basic", "from_api_key"}
Constructors == {"from_auth", "from_basic", "from_api_key"}
Last == history[Len(history)]
Called == history # << >>

\* Some auth() call made before call number n succeeded.
AuthSucceededBefore(n) ==
    \E i \in 1..(n - 1) : history[i].op \in AuthOps /\ history[i].result.ok
SomeAuthSucceeded == AuthSucceededBefore(Len(history) + 1)

HasCredential(r) == r.auth # None \/ r.headers # {}

\* The step is a call of the named operation.
StepOf(op) == Len(history') = Len(history) + 1 /\ history'[Len(history')].op = op

Posts == {i \in 1..Len(wire) : wire[i].method = "POST"}
QuotesCalls == {i \in 1..Len(history) : history[i].op = "quotes"}

\* The transport exchange of quotes() failed: no response, a rejecting
\* status, or a body that does not decode into a BookingResponse.
TransportFailed(resp) ==
    \/ resp.kind # "Body"
    \/ ~resp.valid
    \/ resp.status \notin KnownTokens

\* C1: a client built by new() is unauthenticated; a held client is
\* authenticated exactly when some auth() call on it has succeeded, so it is
\* authenticated after a successful auth() and still unauthenticated after a
\* failed auth() when none succeeded before; a failed auth() returns an
\* HTTPError to the caller.
Thm_C1 ==
    /\ (Called /\ Last.op = "new") => (client # None /\ ~client[1].authenticated)
    /\ client # None => (client[1].authenticated <=> SomeAuthSucceeded)
    /\ \A i \in 1..Len(history) :
          (history[i].op = "auth" /\ ~get(history[i].resp[1]).ok)
             => (~history[i].result.ok /\ history[i].result.kind = "HTTPError")
    /\ \A i \in 1..Len(history) :
          (history[i].op = "auth" /\ get(history[i].resp[1]).ok) => history[i].result.ok

\* A failed auth() on a fresh client, then a successful one.
Witness_C1 ==
    /\ Len(history) = 3 /\ history[1].op = "new"
    /\ history[2].op = "auth" /\ ~history[2].result.ok
    /\ history[3].op = "auth" /\ history[3].result.ok
    /\ client[1].authenticated

\* The request that call number i put on the wire (new() sends none).
RequestOf(i) == wire[Cardinality({k \in 1..i : history[k].op # "new"})]

\* C2 (as claimed): a quotes() call made while no auth() has succeeded never
\* succeeds on a request that carries the credential a failed auth() set.
Claim_C2 ==
    \A i \in 1..Len(history) :
        (history[i].op = "quotes" /\ history[i].result.ok /\ ~AuthSucceededBefore(i))
           => ~HasCredential(RequestOf(i))

\* C3 (as claimed): the handle never carries a Basic credential and an
\* Api-key header together.
Claim_C3 ==
    client # None =>
        ~(/\ client[1].restclient.auth # None
          /\ \E h \in client[1].restclient.headers : h[1] = "Api-key")

\* C4: once the client is authenticated it stays authenticated over every
\* later call.
Thm_C4 ==
    [][(client # None /\ client[1].authenticated)
          => (client' # None /\ client'[1].authenticated)]_vars

\* An authenticated client after a failed auth() with another credential.
Witness_C4 ==
    /\ Len(history) >= 2 /\ Last.op = "auth" /\ ~Last.result.ok
    /\ history[Len(history) - 1].result.ok
    /\ history[Len(history) - 1].op \in AuthOps
    /\ history[Len(history) - 1].arg # Last.arg
    /\ client[1].authenticated

\* C5: a quotes() call, successful or not, leaves the authenticated flag
\* and the handle's standing credentials as they were.
Thm_C5 == [][StepOf("quotes") => client' = client]_vars

\* A successful and a failed quotes() on a client carrying a credential.
Witness_C5 ==
    /\ Len(history) = 3
    /\ history[2].op = "quotes" /\ history[2].result.ok
    /\ history[3].op = "quotes" /\ ~history[3].result.ok
    /\ HasCredential(client[1].restclient)

\* C6: each quotes() call puts exactly one request on the wire, a POST to
\* bookings/v4, also when it fails; so there are as many POSTs as calls.
Thm_C6 ==
    [][StepOf("quotes") =>
          /\ Len(wire') = Len(wire) + 1
          /\ wire'[Len(wire')].method = "POST"
          /\ wire'[Len(wire')].path = "bookings/v4"
          /\ Cardinality(Posts') = Cardinality(QuotesCalls')]_vars

\* A failed quotes() with one POST on the wire.
Witness_C6 ==
    /\ Called /\ Last.op = "quotes" /\ ~Last.result.ok
    /\ Cardinality(Posts) = 1 /\ wire[Len(wire)].path = "bookings/v4"

\* C7: quotes() before any auth() is sent all the same and its rejection
\* comes back as HTTPError; every failed exchange of quotes() comes back as
\* HTTPError with the transport's message and no response value.
Thm_C7 ==
    \A i \in 1..Len(history) :
        history[i].op = "quotes" =>
            /\ TransportFailed(history[i].resp[1]) =>
                  /\ ~history[i].result.ok
                  /\ history[i].result.kind = "HTTPError"
                  /\ history[i].result.msg = post_capture(history[i].resp[1]).msg
                  /\ history[i].result.value = None
            /\ ~TransportFailed(history[i].resp[1]) => history[i].result.ok
            /\ Cardinality(Posts) >= 1

\* quotes() on a client that never called auth(), rejected by the API.
Witness_C7 ==
    /\ Len(history) = 2 /\ history[1].op = "new" /\ history[2].op = "quotes"
    /\ history[2].resp[1].kind = "HttpStatus"
    /\ history[2].result.kind = "HTTPError"
    /\ Len(wire) = 1 /\ ~HasCredential(wire[1])

\* C8: a from_* constructor returns what new() followed by auth() yields:
\* a client exactly when that auth() succeeded, then the authenticated
\* client auth() left; otherwise the error of auth() and no client.
Thm_C8 ==
    \A i \in 1..Len(history) :
        history[i].op \in Constructors =>
            LET r == auth(new, history[i].arg[1], history[i].resp[1])
            IN  /\ history[i].result.ok <=> r.result.ok
                /\ ~r.result.ok => history[i].result = r.result
                /\ i = Len(history) =>
                      /\ r.result.ok => (client = Some(r.self) /\ client[1].authenticated)
                      /\ ~r.result.ok => client = None
                /\ (i < Len(history) /\ ~r.result.ok) => history[i + 1].op \in Constructors \cup {"new"}

\* A from_basic() that failed, then a from_api_key() that returned a client.
Witness_C8 ==
    /\ Len(history) = 2
    /\ history[1].op = "from_basic" /\ ~history[1].result.ok
    /\ history[2].op = "from_api_key" /\ history[2].result.ok
    /\ client # None /\ client[1].authenticated

\* C9 (as claimed): a booking body whose status token is not in the table
\* makes quotes() fail with the UnknownStatus kind, not HTTPError.
Claim_C9 ==
    \A i \in 1..Len(history) :
        (/\ history[i].op = "quotes"
         /\ history[i].resp[1].kind = "Body" /\ history[i].resp[1].valid
         /\ history[i].resp[1].status \notin KnownTokens)
            => (~history[i].result.ok /\ history[i].result.kind = "UnknownStatus")

\* C10: the token of every variant is lower-snake-case and parses back to
\* that variant, and a token parses to a variant only if it is that
\* variant's token.
Thm_C10 ==
    pc = "parsed" =>
        /\ origin # None =>
              /\ parsed[1].ok /\ parsed[1].value = origin[1]
              /\ \A i \in 1..Len(token) : IsLower(token[i]) \/ token[i] = "_"
        /\ parsed[1].ok =>
              /\ parsed[1].value \in BookingStatus
              /\ token = to_wire_token(parsed[1].value)

\* "booked_manually", produced from BookedManually, parsed back.
Witness_C10 ==
    /\ pc = "parsed" /\ origin = Some("BookedManually")
    /\ token = <<"b","o","o","k","e","d","_","m","a","n","u","a","l","l","y">>
    /\ parsed[1].ok /\ parsed[1].value = "BookedManually"

====
